---- MODULE Spec2Model ----
(***************************************************************************)
(* Model of gepetto/models/litellm.py: the LiteLLM backend.                *)
(*                                                                         *)
(*   - supported_models / is_configured_properly: one GET {server}/models, *)
(*     filtered and projected (specification SpecDiscovery);               *)
(*   - query_model: one chat-completion call, delivered to the callback    *)
(*     through ida_kernwin.execute_sync (non-streaming) or chunk by chunk  *)
(*     (streaming), every failure handled by the three except clauses;     *)
(*   - query_model_async: the same on a threading.Thread.                  *)
(*                                                                         *)
(* Each dispatch (one call of query_model) is a small process; its steps   *)
(* are the points where the code calls out of this file (the SDK call, the *)
(* gate, next() on the stream, the callback), so that the steps of         *)
(* concurrent dispatches interleave.  The outcome of every call out of the *)
(* file (return value or raised exception) is chosen nondeterministically. *)
(***************************************************************************)
EXTENDS Naturals, Sequences, FiniteSets

\* Number of chunks the server emits in the model, all streams together.
MaxChunks == 3
\* Longest "data" array the /models endpoint answers with in the model.
MaxData == 2

\* The dispatches whose interleavings are explored.
Dispatches == {"d1", "d2"}

\* Python's None, and a delta object that has no attribute "content".
None == "<None>"
NoAttr == "<no attribute>"

-----------------------------------------------------------------------------
(* Exceptions: a class and a message (str(e)).                             *)

\* Direct base class of each exception class used (openai's hierarchy).
BaseOf(cls) ==
    CASE cls = "BadRequestError" -> "APIStatusError"
      [] cls = "APIStatusError" -> "APIError"
      [] cls = "APIConnectionError" -> "APIError"
      [] cls = "APIError" -> "OpenAIError"
      [] cls = "OpenAIError" -> "Exception"
      [] cls = "RuntimeError" -> "Exception"
      [] cls = "Exception" -> "BaseException"
      [] OTHER -> "object"

\* isinstance(e, base): what an "except base" clause tests.
RECURSIVE IsInstance(_, _)
IsInstance(cls, base) ==
    IF cls = base THEN TRUE
    ELSE IF cls = "object" THEN FALSE
    ELSE IsInstance(BaseOf(cls), base)

\* Classes the calls out of this file raise in the model: a BadRequestError,
\* another OpenAIError, and an Exception that is no OpenAIError.
ExcClasses == {"BadRequestError", "APIConnectionError", "RuntimeError"}

\* A message is a sequence of tokens: "MCL" is the text "maximum context
\* length is ", "NUM" a run of digits, "THYR" the text " tokens, however you
\* requested ", "TOK" the text " tokens", "TXT" any other text.
CtxPattern == <<"MCL", "NUM", "THYR", "NUM", "TOK">>

\* The messages raised in the model: one that holds the context-length
\* text inside a longer message (as the API's error body does), and one
\* that lacks its second number.
CtxLengthMessage == <<"TXT", "MCL", "NUM", "THYR", "NUM", "TOK", "TXT">>
OtherMessage == <<"TXT", "MCL", "NUM", "THYR", "TOK">>

Messages == {CtxLengthMessage, OtherMessage}

Exceptions == [cls : ExcClasses, msg : Messages]

\* Mutant of ReSearch: re.match, which looks at the start of the message only.
ReSearch_AtStart(pattern, msg) ==
    /\ Len(pattern) <= Len(msg)
    /\ SubSeq(msg, 1, Len(pattern)) = pattern

\* re.search(pattern, str(e)): the pattern occurs somewhere in the message.
ReSearch(pattern, msg) ==
    \E i \in 1..Len(msg) :
        /\ i + Len(pattern) - 1 <= Len(msg)
        /\ SubSeq(msg, i, i + Len(pattern) - 1) = pattern

-----------------------------------------------------------------------------
(* The printed messages, as format string plus the values formatted in.    *)

TooBigMsg ==
    [fmt |-> "Unfortunately, this function is too big to be analyzed with the model's current API limits.",
     model |-> "", error |-> <<>>]

CouldNotCompleteMsg(m, error) ==
    [fmt |-> "{model} could not complete the request: {error}",
     model |-> m, error |-> error]

GeneralMsg(error) ==
    [fmt |-> "General exception encountered while running the query: {error}",
     model |-> "", error |-> error]

\* Mutant of Catches: the final "except Exception" clause is missing.
Catches_NoGeneralClause(cls) ==
    \/ IsInstance(cls, "BadRequestError")
    \/ IsInstance(cls, "OpenAIError")

\* Whether one of the except clauses of query_model catches the exception.
Catches(cls) ==
    \/ IsInstance(cls, "BadRequestError")
    \/ IsInstance(cls, "OpenAIError")
    \/ IsInstance(cls, "Exception")

\* Mutant of Handler: the "except openai.OpenAIError" clause is missing.
Handler_NoApiClause(m, e) ==
    IF IsInstance(e.cls, "BadRequestError")
    THEN IF ReSearch(CtxPattern, e.msg)
         THEN TooBigMsg
         ELSE GeneralMsg(e.msg)
    ELSE GeneralMsg(e.msg)

\* The message the first matching except clause prints.
Handler(m, e) ==
    IF IsInstance(e.cls, "BadRequestError")
    THEN IF ReSearch(CtxPattern, e.msg)
         THEN TooBigMsg
         ELSE GeneralMsg(e.msg)
    ELSE IF IsInstance(e.cls, "OpenAIError")
    THEN CouldNotCompleteMsg(m, e.msg)
    ELSE GeneralMsg(e.msg)

-----------------------------------------------------------------------------
(* What the server sends.                                                  *)

\* A streamed chunk: chunk.choices[0].delta.content (or no such attribute)
\* and chunk.choices[0].finish_reason.  The three kinds a server sends: a
\* chunk with text, and a final chunk whose delta has content None or has
\* no content attribute at all.
Chunks ==
    { [content |-> "a", finish_reason |-> None],
      [content |-> None, finish_reason |-> "stop"],
      [content |-> NoAttr, finish_reason |-> "stop"] }

\* response.choices[0].message.content of a non-streaming response.
Contents == {None, "text"}

\* The models an adapter is constructed for.
Models == {"gpt-x"}

\* The two forms of a query: a plain string, or a list of messages.
Queries ==
    { [type |-> "str", text |-> "hello", messages |-> <<>>],
      [type |-> "list", text |-> "",
       messages |-> <<[role |-> "user", content |-> "hello"]>>] }

\* The conversation built from a query.
Conversation(query) ==
    IF query.type = "str"
    THEN <<[role |-> "user", content |-> query.text]>>
    ELSE query.messages

-----------------------------------------------------------------------------
(* Discovery: GET {server}/models.                                         *)

\* Values of the SERVER setting: unset, empty, or a URL.
Servers == {None, "", "http://litellm"}

\* One entry of the "data" array: its "id" and its "object" (or none).
Entries == [id : {"gpt-x", "gpt-y"}, object : {"model", "other", NoAttr}]

\* The sequences over S of length at most n.
SeqsUpTo(S, n) == UNION {[1..k -> S] : k \in 0..n}

\* The JSON bodies of a successful answer: with or without a "data" array.
Bodies ==
    {[has_data |-> FALSE, data |-> <<>>]}
    \cup [has_data : {TRUE}, data : SeqsUpTo(Entries, MaxData)]

\* What a GET meets: requests.get raises (ConnectionError, Timeout),
\* raise_for_status raises (HTTPError), or the answer is read.
Replies ==
    [kind : {"ConnectionError", "Timeout", "HTTPError"},
     body : {[has_data |-> FALSE, data |-> <<>>]}]
    \cup [kind : {"ok"}, body : Bodies]

\* except requests.RequestException
IsRequestException(kind) == kind \in {"ConnectionError", "Timeout", "HTTPError"}

\* response.json().get("data", [])
DataOf(body) == IF body.has_data THEN body.data ELSE <<>>

\* Mutant of IdsOfModels: the filter on "object" is missing.
RECURSIVE IdsOfModels_Unfiltered(_)
IdsOfModels_Unfiltered(data) ==
    IF data = <<>> THEN <<>>
    ELSE <<Head(data).id>> \o IdsOfModels_Unfiltered(Tail(data))

\* [model["id"] for model in data if model.get("object") == "model"]
RECURSIVE IdsOfModels(_)
IdsOfModels(data) ==
    IF data = <<>> THEN <<>>
    ELSE IF Head(data).object = "model"
         THEN <<Head(data).id>> \o IdsOfModels(Tail(data))
         ELSE IdsOfModels(Tail(data))

\* The return value of supported_models() for the configured link and
\* what the GET meets.
supported_models(link, r) ==
    IF link \in {None, ""} THEN <<>>
    ELSE IF IsRequestException(r.kind) THEN <<>>
    ELSE IdsOfModels(DataOf(r.body))

\* The return value of is_configured_properly().
is_configured_properly(link, r) == Len(supported_models(link, r)) > 0

-----------------------------------------------------------------------------
VARIABLES
    model,      \* self.model
    pc,         \* pc[d]: where dispatch d stands in query_model
    request,    \* request[d]: what was passed to chat.completions.create
    thread,     \* thread[d]: the thread running query_model for d
    asyncRet,   \* asyncRet[d]: whether query_model_async has returned
    response,   \* response[d]: the non-streaming response's content
    emitted,    \* emitted[d]: the chunks next() has yielded so far
    calls,      \* calls[d]: the callback invocations made so far
    err,        \* err[d]: the exception raised inside the try block
    printed,    \* printed[d]: the messages printed by the except clauses
    server,     \* the configured LiteLLM server (get_server())
    reply,      \* what the last GET {server}/models met
    called,     \* the discovery operation called last
    listed,     \* the list the last supported_models() returned
    configured  \* the last return value of is_configured_properly()

dvars == <<model, pc, request, thread, asyncRet, response, emitted, calls,
           err, printed>>
cvars == <<server, reply, called, listed, configured>>
vars == <<dvars, cvars>>

NoErr == [cls |-> "none", msg |-> <<>>, at |-> "none"]
NoRequest == [model |-> "", messages |-> <<>>, stream |-> FALSE]
NoReply == [kind |-> "none", body |-> [has_data |-> FALSE, data |-> <<>>]]

Init ==
    /\ model \in Models
    /\ pc = [d \in Dispatches |-> "idle"]
    /\ request = [d \in Dispatches |-> NoRequest]
    /\ thread = [d \in Dispatches |-> "none"]
    /\ asyncRet = [d \in Dispatches |-> "na"]
    /\ response = [d \in Dispatches |-> NoAttr]
    /\ emitted = [d \in Dispatches |-> <<>>]
    /\ calls = [d \in Dispatches |-> <<>>]
    /\ err = [d \in Dispatches |-> NoErr]
    /\ printed = [d \in Dispatches |-> <<>>]
    /\ server = "http://litellm"
    /\ reply = NoReply
    /\ called = "none"
    /\ listed = <<>>
    /\ configured = FALSE

-----------------------------------------------------------------------------
(* query_model                                                             *)

\* Entry of query_model on thread t: the conversation is built and the
\* SDK call is about to be made.
Enter(d, t, query, stream) ==
    /\ pc[d] = "idle"
    /\ pc' = [pc EXCEPT ![d] = "create"]
    /\ thread' = [thread EXCEPT ![d] = t]
    /\ request' = [request EXCEPT ![d] =
                      [model |-> model, messages |-> Conversation(query),
                       stream |-> stream]]

\* Mutant of Raise: the try block sits inside the loop, so that a failure
\* of the iteration or of the callback is printed and the loop goes on.
Raise_LoopGoesOn(d, at, e) ==
    /\ err' = [err EXCEPT ![d] = [cls |-> e.cls, msg |-> e.msg, at |-> at]]
    /\ printed' = [printed EXCEPT ![d] = Append(@, Handler(model, e))]
    /\ pc' = [pc EXCEPT ![d] =
                 IF request[d].stream /\ at # "create" THEN "iter" ELSE "done"]

\* An exception e raised at place `at` inside the try block: the first
\* matching except clause prints its message and query_model returns; an
\* exception no clause catches leaves query_model.
Raise(d, at, e) ==
    /\ err' = [err EXCEPT ![d] = [cls |-> e.cls, msg |-> e.msg, at |-> at]]
    /\ IF Catches(e.cls)
       THEN /\ printed' = [printed EXCEPT ![d] = Append(@, Handler(model, e))]
            /\ pc' = [pc EXCEPT ![d] = "done"]
       ELSE /\ printed' = printed
            /\ pc' = [pc EXCEPT ![d] = "raised"]

\* A blocking call of query_model by the host.
query_model(d) ==
    /\ \E query \in Queries, stream \in BOOLEAN :
          Enter(d, "caller", query, stream)
    /\ UNCHANGED <<model, asyncRet, response, emitted, calls, err, printed, cvars>>

\* Mutant of create: a failure of the SDK call is also reported to the
\* callback.
create_FailureToCallback(d) ==
    /\ pc[d] = "create"
    /\ \/ /\ ~request[d].stream
          /\ \E c \in Contents : response' = [response EXCEPT ![d] = c]
          /\ pc' = [pc EXCEPT ![d] = "gate"]
          /\ UNCHANGED <<err, printed, calls>>
       \/ /\ request[d].stream
          /\ pc' = [pc EXCEPT ![d] = "iter"]
          /\ UNCHANGED <<response, err, printed, calls>>
       \/ /\ \E e \in Exceptions : Raise(d, "create", e)
          /\ calls' = [calls EXCEPT ![d] =
                          Append(@, [args |-> <<"">>, via |-> "direct",
                                     thread |-> thread[d]])]
          /\ UNCHANGED response
    /\ UNCHANGED <<model, request, thread, asyncRet, emitted, cvars>>

\* self.client.chat.completions.create(...) returns the response (or the
\* stream object), or raises.
create(d) ==
    /\ pc[d] = "create"
    /\ \/ /\ ~request[d].stream
          /\ \E c \in Contents : response' = [response EXCEPT ![d] = c]
          /\ pc' = [pc EXCEPT ![d] = "gate"]
          /\ UNCHANGED <<err, printed>>
       \/ /\ request[d].stream
          /\ pc' = [pc EXCEPT ![d] = "iter"]
          /\ UNCHANGED <<response, err, printed>>
       \/ /\ \E e \in Exceptions : Raise(d, "create", e)
          /\ UNCHANGED response
    /\ UNCHANGED <<model, request, thread, asyncRet, emitted, calls, cvars>>

\* One invocation of the callback: its arguments, how it was reached and
\* the thread it runs on.
Invocation(args, via, on) == [args |-> args, via |-> via, thread |-> on]

\* Mutant of GateCall: the callback is called directly, without the gate.
GateCall_Direct(d) ==
    [args |-> <<response[d]>>, via |-> "direct", thread |-> thread[d]]

\* The non-streaming delivery: cb(response=content) handed to
\* ida_kernwin.execute_sync with MFF_WRITE, which runs it on the main thread.
GateCall(d) ==
    Invocation(<<response[d]>>, "execute_sync", "main")

\* Non-streaming: execute_sync(partial(cb, response=...), MFF_WRITE) runs
\* the callback and returns, or raises.
execute_sync(d) ==
    /\ pc[d] = "gate"
    /\ calls' = [calls EXCEPT ![d] = Append(@, GateCall(d))]
    /\ \/ /\ pc' = [pc EXCEPT ![d] = "done"]
          /\ UNCHANGED <<err, printed>>
       \/ \E e \in Exceptions : Raise(d, "cb", e)
    /\ UNCHANGED <<model, request, thread, asyncRet, response, emitted, cvars>>

\* The number of chunks emitted so far, all streams together.
RECURSIVE SumLen(_, _)
SumLen(f, S) ==
    IF S = {} THEN 0
    ELSE LET d == CHOOSE x \in S : TRUE
         IN  Len(f[d]) + SumLen(f, S \ {d})

TotalEmitted == SumLen(emitted, Dispatches)

\* Streaming: next() on the response yields a chunk, ends the stream, or
\* raises.
next_chunk(d) ==
    /\ pc[d] = "iter"
    /\ \/ /\ TotalEmitted < MaxChunks
          /\ \E c \in Chunks : emitted' = [emitted EXCEPT ![d] = Append(@, c)]
          /\ pc' = [pc EXCEPT ![d] = "cb"]
          /\ UNCHANGED <<err, printed>>
       \/ /\ pc' = [pc EXCEPT ![d] = "done"]
          /\ UNCHANGED <<emitted, err, printed>>
       \/ /\ \E e \in Exceptions : Raise(d, "iter", e)
          /\ UNCHANGED emitted
    /\ UNCHANGED <<model, request, thread, asyncRet, response, calls, cvars>>

\* content = delta.content if hasattr(delta, "content") else ""
DeltaText(chunk) ==
    IF chunk.content # NoAttr THEN chunk.content ELSE ""

\* Mutant of CurrentChunk: the loop body keeps working on the first chunk.
CurrentChunk_First(d) == emitted[d][1]

\* The chunk the loop body works on: the i-th chunk of the stream.
CurrentChunk(d) == emitted[d][Len(emitted[d])]

\* The streaming delivery: cb(content, finished) called in the loop body,
\* on the thread that runs query_model.
DirectCall(d) ==
    Invocation(<<DeltaText(CurrentChunk(d)), CurrentChunk(d).finish_reason>>,
               "direct", thread[d])

\* Streaming: the loop body calls cb(content, finished), which returns or
\* raises.
cb(d) ==
    /\ pc[d] = "cb"
    /\ calls' = [calls EXCEPT ![d] = Append(@, DirectCall(d))]
    /\ \/ /\ pc' = [pc EXCEPT ![d] = "iter"]
          /\ UNCHANGED <<err, printed>>
       \/ \E e \in Exceptions : Raise(d, "cb", e)
    /\ UNCHANGED <<model, request, thread, asyncRet, response, emitted, cvars>>

-----------------------------------------------------------------------------
(* query_model_async                                                       *)

\* t = threading.Thread(target=self.query_model, ...); t.start(): the
\* worker enters query_model; the caller is still inside query_model_async.
query_model_async(d) ==
    /\ \E query \in Queries, stream \in BOOLEAN :
          Enter(d, "worker", query, stream)
    /\ asyncRet' = [asyncRet EXCEPT ![d] = "pending"]
    /\ UNCHANGED <<model, response, emitted, calls, err, printed, cvars>>

\* Mutant of async_return: the thread is joined before returning.
async_return_Joined(d) ==
    /\ asyncRet[d] = "pending"
    /\ pc[d] = "done"
    /\ asyncRet' = [asyncRet EXCEPT ![d] = "returned"]
    /\ UNCHANGED <<model, pc, request, thread, response, emitted, calls, err,
                   printed, cvars>>

\* query_model_async returns to its caller: nothing waits for the worker.
async_return(d) ==
    /\ asyncRet[d] = "pending"
    /\ asyncRet' = [asyncRet EXCEPT ![d] = "returned"]
    /\ UNCHANGED <<model, pc, request, thread, response, emitted, calls, err,
                   printed, cvars>>

-----------------------------------------------------------------------------
Next ==
    \E d \in Dispatches :
        \/ query_model(d)
        \/ query_model_async(d)
        \/ async_return(d)
        \/ create(d)
        \/ execute_sync(d)
        \/ next_chunk(d)
        \/ cb(d)

Spec == Init /\ [][Next]_vars

\* The next step of the thread that runs query_model for dispatch d.
worker(d) == create(d) \/ execute_sync(d) \/ next_chunk(d) \/ cb(d)

\* Every started thread keeps being scheduled, and every call out of this
\* file returns or raises.
Fairness ==
    \A d \in Dispatches :
        /\ WF_vars(async_return(d))
        /\ WF_vars(worker(d))

\* The host dispatching through query_model_async only.
NextAsync ==
    \E d \in Dispatches :
        \/ query_model_async(d)
        \/ async_return(d)
        \/ create(d)
        \/ execute_sync(d)
        \/ next_chunk(d)
        \/ cb(d)

FairSpec == Init /\ [][NextAsync]_vars /\ Fairness

-----------------------------------------------------------------------------
(* Discovery as a state machine: the host calls supported_models() or      *)
(* is_configured_properly() while no dispatch runs; each call reads the    *)
(* setting and makes its own GET.                                          *)

InitDiscovery ==
    /\ model \in Models
    /\ pc = [d \in Dispatches |-> "idle"]
    /\ request = [d \in Dispatches |-> NoRequest]
    /\ thread = [d \in Dispatches |-> "none"]
    /\ asyncRet = [d \in Dispatches |-> "na"]
    /\ response = [d \in Dispatches |-> NoAttr]
    /\ emitted = [d \in Dispatches |-> <<>>]
    /\ calls = [d \in Dispatches |-> <<>>]
    /\ err = [d \in Dispatches |-> NoErr]
    /\ printed = [d \in Dispatches |-> <<>>]
    /\ server \in Servers
    /\ reply = NoReply
    /\ called = "none"
    /\ listed = <<>>
    /\ configured = FALSE

\* The GET is made only when a link is configured.
Met(link, r) == IF link \in {None, ""} THEN NoReply ELSE r

call_supported_models ==
    /\ \E r \in Replies :
          /\ reply' = Met(server, r)
          /\ listed' = supported_models(server, r)
    /\ called' = "supported_models"
    /\ UNCHANGED <<server, configured, dvars>>

call_is_configured_properly ==
    /\ \E r \in Replies :
          /\ reply' = Met(server, r)
          /\ listed' = supported_models(server, r)
          /\ configured' = is_configured_properly(server, r)
    /\ called' = "is_configured_properly"
    /\ UNCHANGED <<server, dvars>>

NextDiscovery ==
    \/ call_supported_models
    \/ call_is_configured_properly

SpecDiscovery == InitDiscovery /\ [][NextDiscovery]_vars

-----------------------------------------------------------------------------
(* Properties of query_model                                               *)

Stream(d) == request[d].stream
Failed(d) == err[d] # NoErr
Returned(d) == pc[d] = "done"

\* Invocation `call` carries the data of `chunk`: its finish marker, and
\* its delta text when the chunk has text.
Carries(call, chunk) ==
    /\ Len(call.args) = 2
    /\ call.args[2] = chunk.finish_reason
    /\ chunk.content \notin {NoAttr, None} => call.args[1] = chunk.content

\* C1: whatever raises inside a dispatch (the SDK call, the chunk
\* iteration, the callback; a BadRequestError, another OpenAIError, another
\* Exception), no exception leaves query_model: the dispatch has returned
\* and has printed a message.
C1_NothingEscapes ==
    \A d \in Dispatches :
        /\ pc[d] # "raised"
        /\ Failed(d) => Returned(d) /\ Len(printed[d]) >= 1

C1_Witness ==
    \E d, e \in Dispatches :
        /\ d # e
        /\ Stream(d) /\ Returned(d)
        /\ err[d].at = "iter" /\ err[d].cls = "RuntimeError"
        /\ ~Stream(e) /\ Returned(e)
        /\ err[e].at = "cb" /\ err[e].cls = "BadRequestError"

\* C2 (as stated): a dispatch that ended in a failure has made no callback
\* invocation, in streaming and in non-streaming mode.
C2_Original ==
    \A d \in Dispatches :
        Returned(d) /\ Failed(d) => calls[d] = <<>>

\* C2 (amended): a dispatch whose SDK call (chat.completions.create) raised
\* has made no callback invocation, in either mode; a dispatch that failed
\* later keeps the invocations made up to the failure: at most one per
\* chunk received when the iteration raised, at least the invocation that
\* raised when the callback did.
C2_Amended ==
    \A d \in Dispatches :
        Returned(d) /\ Failed(d) =>
            /\ err[d].at = "create" => calls[d] = <<>>
            /\ err[d].at = "iter" => Stream(d) /\ Len(calls[d]) <= Len(emitted[d])
            /\ err[d].at = "cb" => Len(calls[d]) >= 1

C2_Witness ==
    \E d, e \in Dispatches :
        /\ d # e
        /\ Stream(d) /\ Returned(d) /\ err[d].at = "create"
        /\ Stream(e) /\ Returned(e) /\ err[e].at = "iter" /\ Len(calls[e]) = 2

\* C3 (as stated): a non-streaming dispatch whose SDK call raises an error
\* with the context-length message prints the "too big" advisory and makes
\* no callback invocation, whatever the class of the error.
C3_Original ==
    \A d \in Dispatches :
        ~Stream(d) /\ Returned(d) /\ err[d].at = "create"
                   /\ err[d].msg = CtxLengthMessage =>
            printed[d] = <<TooBigMsg>> /\ calls[d] = <<>>

\* C3 (amended): a non-streaming dispatch whose SDK call raises a
\* BadRequestError with the context-length message prints the "too big"
\* advisory, and nothing else, and makes no callback invocation.
C3_Amended ==
    \A d \in Dispatches :
        ~Stream(d) /\ Returned(d) /\ err[d].at = "create"
                   /\ err[d].msg = CtxLengthMessage
                   /\ err[d].cls = "BadRequestError" =>
            printed[d] = <<TooBigMsg>> /\ calls[d] = <<>>

C3_Witness ==
    \E d \in Dispatches :
        /\ ~Stream(d) /\ Returned(d) /\ err[d].at = "create"
        /\ err[d].msg = CtxLengthMessage /\ err[d].cls = "BadRequestError"
        /\ printed[d] = <<TooBigMsg>>

IsApiError(cls) == cls \in {"BadRequestError", "APIConnectionError"}
GeneralText == GeneralMsg(<<>>).fmt

C5_StreamOrder ==
    \A d \in Dispatches :
        Stream(d) =>
            /\ Len(calls[d]) <= Len(emitted[d])
            /\ \A i \in 1..Len(calls[d]) : Carries(calls[d][i], emitted[d][i])
            /\ Returned(d) /\ ~Failed(d) => Len(calls[d]) = Len(emitted[d])

C5_Witness ==
    \E d, e \in Dispatches :
        /\ d # e
        /\ thread[d] = "worker" /\ thread[e] = "worker"
        /\ Stream(d) /\ Stream(e)
        /\ Returned(d) /\ ~Failed(d)
        /\ Len(calls[d]) = 2 /\ calls[d][1].args # calls[d][2].args
        /\ pc[e] = "iter" /\ Len(calls[e]) = 1

\* C6 (as stated): in a streaming dispatch the first argument of every
\* callback invocation is the chunk's delta text when the chunk has text,
\* and the empty string when it has none (no content attribute, or content
\* None); the callback is never handed None as delta text.
C6_DeltaTextNeverNone ==
    \A d \in Dispatches :
        Stream(d) =>
            \A i \in 1..Len(calls[d]) :
                /\ calls[d][i].args[1] # None
                /\ emitted[d][i].content \in {NoAttr, None} =>
                       calls[d][i].args[1] = ""
                /\ emitted[d][i].content \notin {NoAttr, None} =>
                       calls[d][i].args[1] = emitted[d][i].content

\* C8: every callback invocation of a non-streaming dispatch is made
\* through ida_kernwin.execute_sync (and so on the main thread), never
\* directly; every callback invocation of a streaming dispatch is made
\* directly on the thread that runs query_model, never through the gate.
C8_GateAffinity ==
    \A d \in Dispatches :
        \A i \in 1..Len(calls[d]) :
            IF Stream(d)
            THEN calls[d][i].via = "direct" /\ calls[d][i].thread = thread[d]
            ELSE calls[d][i].via = "execute_sync" /\ calls[d][i].thread = "main"

C8_Witness ==
    \E d, e \in Dispatches :
        /\ d # e
        /\ ~Stream(d) /\ thread[d] = "worker" /\ Len(calls[d]) = 1
        /\ Stream(e) /\ thread[e] = "worker" /\ Len(calls[e]) = 2

\* The state part of C10: at most one message, none without a failure, and
\* the callbacks of a stream are those of a prefix of the chunk sequence.
C10_State ==
    \A d \in Dispatches :
        /\ Len(printed[d]) <= 1
        /\ ~Failed(d) => printed[d] = <<>>
        /\ Stream(d) =>
              /\ Len(calls[d]) <= Len(emitted[d])
              /\ \A i \in 1..Len(calls[d]) : Carries(calls[d][i], emitted[d][i])

\* The step part of C10: once a dispatch has failed, no callback is invoked
\* and no message is printed for it.
C10_Step ==
    \A d \in Dispatches :
        Failed(d) => calls'[d] = calls[d] /\ printed'[d] = printed[d]

\* C10: each dispatch prints at most one failure message, and none when
\* nothing raises; once a failure has occurred in a dispatch no further
\* callback invocation is made for it, so the callbacks delivered are those
\* of a prefix of the chunk sequence.
C10_OneMessageThenSilence == [](C10_State) /\ [][C10_Step]_vars

C10_Witness ==
    \E d, e \in Dispatches :
        /\ d # e
        /\ Stream(d) /\ Returned(d) /\ err[d].at = "cb"
        /\ Len(calls[d]) = 1 /\ Len(printed[d]) = 1
        /\ Stream(e) /\ Returned(e) /\ ~Failed(e)
        /\ Len(calls[e]) = 2 /\ printed[e] = <<>>

-----------------------------------------------------------------------------
(* Properties of query_model_async                                         *)

\* The SDK did its part for dispatch d: the call returned and the stream
\* was read to its end without the SDK raising.
SdkSucceeded(d) == ~Failed(d) \/ err[d].at = "cb"

\* The callback was invoked exactly once (non-streaming) or exactly once
\* per chunk (streaming).
DeliveredOnce(d) ==
    IF Stream(d)
    THEN Len(calls[d]) = Len(emitted[d])
    ELSE Len(calls[d]) = 1

\* Every dispatch started by query_model_async so far has come to its end:
\* query_model_async has returned and so has the worker's query_model.
AllAsyncSettled ==
    \A d \in Dispatches :
        asyncRet[d] # "na" => asyncRet[d] = "returned" /\ Returned(d)

\* C7: query_model_async returns without waiting for the worker (its return
\* is possible at every point of the worker's progress, the SDK call not yet
\* made included), and under fair scheduling the dispatch it started
\* eventually returns, with the callback invoked exactly once
\* (non-streaming) or once per chunk (streaming) when the SDK call succeeded.
\* A dispatch is started once and never leaves its end, so "again and again
\* all started dispatches are settled" says that each one eventually is.
C7_AsyncDelivers ==
    /\ [](\A d \in Dispatches :
             asyncRet[d] = "pending" => ENABLED async_return(d))
    /\ []<>AllAsyncSettled
    /\ [](\A d \in Dispatches :
             asyncRet[d] # "na" /\ Returned(d) /\ SdkSucceeded(d) =>
                 DeliveredOnce(d))

C7_Witness ==
    \E d, e \in Dispatches :
        /\ d # e
        /\ asyncRet[d] = "returned" /\ pc[d] = "create"
        /\ asyncRet[e] = "returned" /\ Returned(e) /\ ~Failed(e)
        /\ Stream(e) /\ Len(calls[e]) = 2

-----------------------------------------------------------------------------
(* Properties of discovery                                                 *)

\* The positions of the entries of `data` whose "object" is "model".
ModelPositions(data) == {i \in 1..Len(data) : data[i].object = "model"}

\* `ids` lists, in the order of `data`, the id of every entry at a position
\* of ModelPositions(data), and nothing else.
ListsModelIds(ids, data) ==
    LET P == ModelPositions(data)
    IN  /\ Len(ids) = Cardinality(P)
        /\ \A i \in P : ids[Cardinality({j \in P : j <= i})] = data[i].id

====
